---- MODULE Spec2Model ----
(***************************************************************************)
(* A model of the news collection scripts of factset-news.                 *)
(*                                                                         *)
(*  - ComprehensiveNewsCollector (comprehensive_canadian_banks_news.py):   *)
(*    collect_news, _rate_limit, _search_news, _check_bank_mentions,       *)
(*    _process_results, and the export of main.                            *)
(*  - main of comprehensive_news_strategy.py: the summary file.            *)
(*  - CanadianBankingNewsCollector._check_bank_mentions                    *)
(*    (comprehensive_news_strategy_fixed.py), the tagger with aliases.     *)
(*  - get_available_filters, get_news_for_ticker and the institution       *)
(*    loop of main (street_account_news_canadian_banks.py).                *)
(*  - two executions of _search_news interleaved statement by statement.   *)
(*  - main of both scripts from setup to finally: environment, NAS,        *)
(*    configuration, certificate, client, run, except, cleanup.            *)
(*  - nas_create_directory_recursive on a share another client writes to.  *)
(*                                                                         *)
(* Python strings are TLA+ strings; None is the value None below.          *)
(***************************************************************************)
EXTENDS Integers, Sequences, FiniteSets, TLC

VARIABLES
    \* ComprehensiveNewsCollector
    all_news,        \* self.all_news: the list of stored news_item dicts
    unique_stories,  \* self.unique_stories: the set of seen story ids
    request_count,   \* self.request_count
    pc,              \* position of collect_news in its plan
    last,            \* what the last _search_news call did (return value, log)
    first_returned,  \* history: description of the first search whose response held an id
    \* _check_bank_mentions taken alone
    tag_story,       \* the news_item handed to the tagger
    tag_result,      \* what the two taggers returned for it
    \* get_news_for_ticker inside main's institution loop
    cfg,             \* config["api_settings"]
    inst,            \* index of the institution main is processing
    gn,              \* get_news_for_ticker's frame: attempt, calls made, state
    summary,         \* all_news_summary: ticker index -> news_count
    error_log,       \* error_log entries of type api_query
    main_state,      \* "filters", "loop", "done", or "failed" (an exception reached main)
    wire,            \* the calls sent to the service: time slept since the last one
    \* _process_results and the export of main (comprehensive_canadian_banks_news.py)
    df,              \* the DataFrame _process_results returned, as its list of rows
    agg_log,         \* what _process_results logged
    files,           \* the files main has written, in order
    run_state,       \* position of main: "collect", "save", "samples", "complete", "aborted"
    prev_run,        \* history: the result of an earlier run on the same stories
    \* two _search_news executions interleaved statement by statement
    thr,             \* each execution's frame: position, remaining items, new_count
    \* main of street_account_news_canadian_banks.py and of the collector script
    mn,              \* main's frame: position, nas_conn, ssl_cert_path, stage_summary, ...
    world,           \* what main acts on: the SMB connection, the temp file, the API, the saved logs
    \* nas_create_directory_recursive on a share another client writes to
    share,           \* the directories that exist on the share
    mkdir            \* the function's frame: path_parts, position, what it created

vars == <<all_news, unique_stories, request_count, pc, last, first_returned,
          tag_story, tag_result, cfg, inst, gn, summary, error_log, main_state,
          wire, df, agg_log, files, run_state, prev_run,
          thr, mn, world, share, mkdir>>

collector_vars == <<all_news, unique_stories, request_count, pc, last, first_returned>>
tag_vars == <<tag_story, tag_result>>
ticker_vars == <<cfg, inst, gn, summary, error_log, main_state, wire>>
agg_vars == <<df, agg_log, files, run_state, prev_run>>
race_vars == <<thr>>
main_vars == <<mn, world>>
nas_vars == <<share, mkdir>>

(***************************************************************************)
(* Python values                                                           *)
(***************************************************************************)
None == "<None>"

\* Python truthiness of an id: None and the empty string are falsy.
Truthy(v) == v # None /\ v # ""

RECURSIVE SeqToSet(_)
SeqToSet(s) == IF s = <<>> THEN {} ELSE {Head(s)} \cup SeqToSet(Tail(s))

\* str.lower() on one character (ASCII letters the model's texts use).
LowerChar(c) ==
    CASE c = "A" -> "a" [] c = "B" -> "b" [] c = "C" -> "c" [] c = "D" -> "d"
      [] c = "E" -> "e" [] c = "F" -> "f" [] c = "G" -> "g" [] c = "H" -> "h"
      [] c = "I" -> "i" [] c = "J" -> "j" [] c = "K" -> "k" [] c = "L" -> "l"
      [] c = "M" -> "m" [] c = "N" -> "n" [] c = "O" -> "o" [] c = "P" -> "p"
      [] c = "Q" -> "q" [] c = "R" -> "r" [] c = "S" -> "s" [] c = "T" -> "t"
      [] c = "U" -> "u" [] c = "V" -> "v" [] c = "W" -> "w" [] c = "X" -> "x"
      [] c = "Y" -> "y" [] c = "Z" -> "z" [] OTHER -> c

\* str.lower()
RECURSIVE Lower(_)
Lower(s) ==
    IF Len(s) = 0 THEN ""
    ELSE LowerChar(SubSeq(s, 1, 1)) \o Lower(SubSeq(s, 2, Len(s)))

\* the Python test `needle in haystack` on two strings
Contains(haystack, needle) ==
    \E i \in 1..(Len(haystack) - Len(needle) + 1) :
        SubSeq(haystack, i, i + Len(needle) - 1) = needle

\* str.replace(old, ""), scanning left to right
RECURSIVE Remove(_, _)
Remove(s, old) ==
    IF Len(s) < Len(old) THEN s
    ELSE IF SubSeq(s, 1, Len(old)) = old
         THEN Remove(SubSeq(s, Len(old) + 1, Len(s)), old)
         ELSE SubSeq(s, 1, 1) \o Remove(SubSeq(s, 2, Len(s)), old)

\* what an f-string prints for a value
FStr(v) == IF v = None THEN "None" ELSE v

\* dict.get(key, default) or []: a missing or None list reads as the empty list
OrEmpty(v) == IF v = None THEN <<>> ELSE v

\* min(a, b)
Min(a, b) == IF a <= b THEN a ELSE b

(***************************************************************************)
(* The tracked banks                                                       *)
(***************************************************************************)
\* ComprehensiveNewsCollector.canadian_banks, in insertion order
canadian_banks ==
    << [ticker |-> "RY-CA",  name |-> "Royal Bank of Canada"],
       [ticker |-> "TD-CA",  name |-> "Toronto-Dominion Bank"],
       [ticker |-> "BMO-CA", name |-> "Bank of Montreal"],
       [ticker |-> "BNS-CA", name |-> "Bank of Nova Scotia"],
       [ticker |-> "CM-CA",  name |-> "CIBC"],
       [ticker |-> "NA-CA",  name |-> "National Bank of Canada"],
       [ticker |-> "LB-CA",  name |-> "Laurentian Bank"] >>

\* CanadianBankingNewsCollector.canadian_banks of the rate-limited script
canadian_banks_fixed ==
    << [ticker |-> "RY-CA",  name |-> "Royal Bank of Canada",  aliases |-> <<"RY", "RY.TO">>],
       [ticker |-> "TD-CA",  name |-> "Toronto-Dominion Bank", aliases |-> <<"TD", "TD.TO">>],
       [ticker |-> "BMO-CA", name |-> "Bank of Montreal",      aliases |-> <<"BMO", "BMO.TO">>],
       [ticker |-> "BNS-CA", name |-> "Bank of Nova Scotia",   aliases |-> <<"BNS", "BNS.TO">>],
       [ticker |-> "CM-CA",  name |-> "CIBC",                  aliases |-> <<"CM", "CM.TO">>],
       [ticker |-> "NA-CA",  name |-> "National Bank",         aliases |-> <<"NA", "NA.TO">>],
       [ticker |-> "LB-CA",  name |-> "Laurentian Bank",       aliases |-> <<"LB", "LB.TO">>] >>

(***************************************************************************)
(* _check_bank_mentions                                                    *)
(***************************************************************************)
\* all_symbols = set(symbols + primary_symbols)
all_symbols(news_item) ==
    SeqToSet(OrEmpty(news_item.symbols) \o OrEmpty(news_item.primarySymbols))

\* full_text = f"{headline} {story}".lower()
full_text(news_item) ==
    Lower(FStr(news_item.headlines) \o " " \o FStr(news_item.storyBody))

\* The loop body without the `ticker.replace("-CA", "")` test.
bank_mentioned_exact(bank, news_item) ==
    IF bank.ticker \in all_symbols(news_item)
    THEN TRUE
    ELSE Contains(full_text(news_item), Lower(bank.name))

\* One pass of the loop body of ComprehensiveNewsCollector._check_bank_mentions:
\* the symbol test with the "-CA" suffix stripped, else the name in the text.
bank_mentioned(bank, news_item) ==
    IF bank.ticker \in all_symbols(news_item)
       \/ Remove(bank.ticker, "-CA") \in all_symbols(news_item)
    THEN TRUE
    ELSE Contains(full_text(news_item), Lower(bank.name))

\* The loop over canadian_banks, appending to `mentioned` in dict order.
RECURSIVE mentions_loop(_, _, _)
mentions_loop(banks, news_item, mentioned) ==
    IF banks = <<>> THEN mentioned
    ELSE mentions_loop(Tail(banks), news_item,
                       IF bank_mentioned(Head(banks), news_item)
                       THEN Append(mentioned, Head(banks).ticker)
                       ELSE mentioned)

\* The tagger keeping `mentioned` from one call to the next.
check_bank_mentions_accumulating(news_item) ==
    mentions_loop(canadian_banks, news_item, tag_result.plain)

\* mentioned = [] (line 298), the loop, return mentioned (line 319)
check_bank_mentions(news_item) == mentions_loop(canadian_banks, news_item, <<>>)

\* The same loop body in comprehensive_news_strategy_fixed.py:
\* check_tickers = [ticker] + info['aliases'].
bank_mentioned_fixed(bank, news_item) ==
    IF \E t \in SeqToSet(<<bank.ticker>> \o bank.aliases) : t \in all_symbols(news_item)
    THEN TRUE
    ELSE Contains(full_text(news_item), Lower(bank.name))

RECURSIVE mentions_loop_fixed(_, _, _)
mentions_loop_fixed(banks, news_item, mentioned) ==
    IF banks = <<>> THEN mentioned
    ELSE mentions_loop_fixed(Tail(banks), news_item,
                             IF bank_mentioned_fixed(Head(banks), news_item)
                             THEN Append(mentioned, Head(banks).ticker)
                             ELSE mentioned)

check_bank_mentions_fixed(news_item) ==
    mentions_loop_fixed(canadian_banks_fixed, news_item, <<>>)

(***************************************************************************)
(* What the headlines API can answer to one request                        *)
(***************************************************************************)
\* The most payloads one response carries.
MaxResp == 2

\* Story identifiers the service hands out.
StoryIds == {"s1", "s2"}

\* The content of a story, as item.to_dict() renders it (the id apart).
StoryContents ==
    { [headlines |-> "RBC profits rise", storyBody |-> None,
       symbols |-> <<"RY-CA">>, primarySymbols |-> <<"RY-CA">>,
       storyTime |-> "2024-03-02T09:30:00"],
      [headlines |-> "Markets wrap", storyBody |-> "CIBC and Bank of Montreal gain",
       symbols |-> <<"TD">>, primarySymbols |-> None,
       storyTime |-> "2024-03-01T16:00:00"] }

\* More stories for _process_results: one without headline and timestamp,
\* one whose timestamp does not parse, one that mentions no bank.
AggContents ==
    StoryContents \cup
    { [headlines |-> None, storyBody |-> None,
       symbols |-> <<"TD-CA">>, primarySymbols |-> <<"TD-CA">>,
       storyTime |-> None],
      [headlines |-> "Bank of Nova Scotia dividend", storyBody |-> "",
       symbols |-> <<>>, primarySymbols |-> <<"RY">>,
       storyTime |-> "soon"],
      [headlines |-> "Oil prices fall", storyBody |-> None,
       symbols |-> <<"XOM">>, primarySymbols |-> None,
       storyTime |-> "2024-03-02T09:30:00"] }

\* A payload of response.data. `converts` is FALSE for an item whose
\* conversion (item.to_dict(), lines 273-278) raises. The service may send a
\* story again with another content, a payload without id, and one story
\* whose conversion raises.
Payloads ==
    { [id |-> "s1", content |-> c, converts |-> TRUE] : c \in StoryContents }
    \cup { [id |-> i, content |-> CHOOSE c \in StoryContents : c.storyBody = None,
            converts |-> b] : i \in {"s2"}, b \in BOOLEAN }
    \cup { [id |-> None, content |-> CHOOSE c \in StoryContents : c.storyBody = None,
            converts |-> TRUE] }

Responses == UNION { [1..n -> Payloads] : n \in 0..MaxResp }

\* str(e) of the exceptions get_street_account_headlines raises.
BadRequestMsg == "(400) Reason: Bad Request"
UnauthorizedMsg == "(401) Reason: Unauthorized"
UnavailableMsg == "(503) Reason: Service Unavailable"
ApiErrors == {BadRequestMsg, UnauthorizedMsg, UnavailableMsg}

\* str(e) of the exception a payload's conversion raises.
ConvertErrorMsg == "TypeError: unhashable type"

ApiOutcomes ==
    { [kind |-> "data", data |-> d, msg |-> ""] : d \in Responses }
    \cup { [kind |-> "none", data |-> <<>>, msg |-> ""] }
    \cup { [kind |-> "error", data |-> <<>>, msg |-> m] : m \in ApiErrors }

(***************************************************************************)
(* ComprehensiveNewsCollector._search_news                                 *)
(***************************************************************************)
\* self._check_bank_mentions(news_item) for each content the service can send,
\* computed once (the tagger reads the content fields only).
bank_mentions_of == [c \in AggContents |-> check_bank_mentions(c)]

\* news_item = item.to_dict(), stamped and tagged (lines 273-278)
news_item_of(item, description, now) ==
    [id |-> item.id,
     headlines |-> item.content.headlines,
     storyBody |-> item.content.storyBody,
     symbols |-> item.content.symbols,
     primarySymbols |-> item.content.primarySymbols,
     storyTime |-> item.content.storyTime,
     search_method |-> description,
     retrieved_at |-> now,
     canadian_banks_mentioned |-> bank_mentions_of[item.content]]

\* if story_id and story_id not in self.unique_stories (line 269)
is_new(story_id, seen) == Truthy(story_id) /\ story_id \notin seen

\* The loop over response.data (lines 266-281). It stops where a conversion
\* raises: the id is already in unique_stories, the record is not appended.
RECURSIVE process_items(_, _, _, _, _, _)
process_items(items, news, seen, new_count, description, now) ==
    IF items = <<>>
    THEN [all_news |-> news, unique_stories |-> seen, new_count |-> new_count, raised |-> FALSE]
    ELSE LET item == Head(items)
             story_id == item.id
         IN  IF is_new(story_id, seen)
             THEN IF item.converts
                  THEN process_items(Tail(items),
                                     Append(news, news_item_of(item, description, now)),
                                     seen \cup {story_id}, new_count + 1, description, now)
                  ELSE [all_news |-> news, unique_stories |-> seen \cup {story_id},
                        new_count |-> new_count, raised |-> TRUE]
             ELSE process_items(Tail(items), news, seen, new_count, description, now)

\* The except clause ending in a bare `raise` after logging.
on_search_error_reraise(description, error_msg) ==
    [ret |-> 0,
     count |-> 0,
     failed |-> TRUE,
     propagates |-> TRUE,
     log |-> << [level |-> "ERROR",
                 msg |-> description \o ": Error - " \o error_msg] >>]

\* The except clause (lines 287-293): every Exception is caught, logged with
\* the description, and the call returns 0.
on_search_error(description, error_msg) ==
    [ret |-> 0,
     count |-> 0,
     failed |-> TRUE,
     propagates |-> FALSE,
     log |-> << IF Contains(error_msg, "400")
                THEN [level |-> "WARNING",
                      msg |-> description \o ": Bad Request (400) - Invalid filter value"]
                ELSE [level |-> "ERROR",
                      msg |-> description \o ": Error - " \o error_msg] >>]

\* _search_news whose handler starts the collection afresh.
search_news_reset(news, seen, description, now, api) ==
    IF api.kind = "error"
    THEN [all_news |-> <<>>, unique_stories |-> {}] @@ on_search_error(description, api.msg)
    ELSE IF api.kind = "none" \/ api.data = <<>>
    THEN [all_news |-> news, unique_stories |-> seen, ret |-> 0, count |-> 0,
          failed |-> FALSE, propagates |-> FALSE, log |-> <<>>]
    ELSE LET r == process_items(api.data, news, seen, 0, description, now)
         IN  IF r.raised
             THEN [all_news |-> <<>>, unique_stories |-> {}]
                  @@ on_search_error(description, ConvertErrorMsg)
             ELSE [all_news |-> r.all_news, unique_stories |-> r.unique_stories,
                   ret |-> r.new_count, count |-> Len(api.data),
                   failed |-> FALSE, propagates |-> FALSE, log |-> <<>>]

\* _search_news as a whole: the API call, the loop, the return or the handler.
search_news(news, seen, description, now, api) ==
    IF api.kind = "error"
    THEN [all_news |-> news, unique_stories |-> seen] @@ on_search_error(description, api.msg)
    ELSE IF api.kind = "none" \/ api.data = <<>>
    THEN [all_news |-> news, unique_stories |-> seen, ret |-> 0, count |-> 0,
          failed |-> FALSE, propagates |-> FALSE, log |-> <<>>]
    ELSE LET r == process_items(api.data, news, seen, 0, description, now)
         IN  IF r.raised
             THEN [all_news |-> r.all_news, unique_stories |-> r.unique_stories]
                  @@ on_search_error(description, ConvertErrorMsg)
             ELSE [all_news |-> r.all_news, unique_stories |-> r.unique_stories,
                   ret |-> r.new_count, count |-> Len(api.data),
                   failed |-> FALSE, propagates |-> FALSE, log |-> <<>>]

\* What CanadianBankingNewsCollector._execute_search returns for the same
\* call (comprehensive_news_strategy.py lines 264-271): count, or 0 from the
\* except clause.
execute_search_ret(r) == IF r.failed THEN 0 ELSE r.count

(***************************************************************************)
(* ComprehensiveNewsCollector.collect_news                                 *)
(***************************************************************************)
\* description=f"{ticker} ({name})" of strategy 1 (line 185)
ticker_description(bank) == bank.ticker \o " (" \o bank.name \o ")"

\* The searches collect_news issues, in order: one per bank (lines 179-187),
\* the Financial sector (192-197), North America Financial (203-209).
collection_plan ==
    [i \in 1..Len(canadian_banks) |->
        [strategy |-> 1, description |-> ticker_description(canadian_banks[i]),
         label |-> canadian_banks[i].ticker]]
    \o << [strategy |-> 2, description |-> "Financial sector",
           label |-> "Financial sector"],
          [strategy |-> 3, description |-> "North America Financial",
           label |-> "North America Financial"] >>

PcProcess == Len(collection_plan) + 1   \* all searches done, _process_results next
PcDone == Len(collection_plan) + 2      \* collect_news has returned
PcAborted == 0                          \* an exception left collect_news

\* _rate_limit (lines 215-222): the counter after the call
rate_limit(count) == count + 1

\* the story ids a response carries, and how many payloads carry none
resp_ids(api) == { api.data[i].id : i \in 1..Len(api.data) } \cap StoryIds
resp_no_id(api) == Cardinality({ i \in 1..Len(api.data) : ~Truthy(api.data[i].id) })

\* logger.info(f"  {ticker}: {count} headlines") after a search that returned
headlines_line(label, count) ==
    [level |-> "INFO", msg |-> "  " \o label \o ": " \o ToString(count) \o " headlines"]

\* One rate-limited search of the plan: self._rate_limit(); count =
\* self._search_news(...); logger.info(...). The clock read by datetime.now()
\* is the number of the request.
collect_search(api) ==
    LET description == collection_plan[pc].description
        now == rate_limit(request_count)
        r == search_news(all_news, unique_stories, description, now, api)
    IN  /\ request_count' = rate_limit(request_count)
        /\ all_news' = r.all_news
        /\ unique_stories' = r.unique_stories
        /\ last' = [description |-> description, ret |-> r.ret, count |-> r.count,
                    failed |-> r.failed,
                    log |-> IF r.propagates THEN r.log
                            ELSE Append(r.log, headlines_line(collection_plan[pc].label, r.ret)),
                    kind |-> api.kind, ids |-> resp_ids(api), no_id |-> resp_no_id(api)]
        /\ first_returned' =
              [s \in StoryIds |->
                  IF first_returned[s] = "" /\ s \in resp_ids(api)
                  THEN description ELSE first_returned[s]]
        /\ pc' = IF r.propagates THEN PcAborted ELSE pc + 1

\* Strategy 1: the loop over canadian_banks
TickerSearch ==
    /\ pc \in 1..Len(collection_plan)
    /\ collection_plan[pc].strategy = 1
    /\ \E api \in ApiOutcomes : collect_search(api)
    /\ UNCHANGED <<tag_vars, ticker_vars, agg_vars, race_vars, main_vars, nas_vars>>

\* Strategy 2: the Financial sector
SectorSearch ==
    /\ pc \in 1..Len(collection_plan)
    /\ collection_plan[pc].strategy = 2
    /\ \E api \in ApiOutcomes : collect_search(api)
    /\ UNCHANGED <<tag_vars, ticker_vars, agg_vars, race_vars, main_vars, nas_vars>>

\* Strategy 3: North America Financial
RegionSearch ==
    /\ pc \in 1..Len(collection_plan)
    /\ collection_plan[pc].strategy = 3
    /\ \E api \in ApiOutcomes : collect_search(api)
    /\ UNCHANGED <<tag_vars, ticker_vars, agg_vars, race_vars, main_vars, nas_vars>>

(***************************************************************************)
(* ComprehensiveNewsCollector._process_results                             *)
(***************************************************************************)
\* NaT: a storyTime that is missing or does not parse (errors='coerce')
NaT == -1

\* pd.to_datetime(value, errors='coerce'), as month-day-hour-minute
to_datetime(v) ==
    CASE v = "2024-03-01T16:00:00" -> 3011600
      [] v = "2024-03-02T09:30:00" -> 3020930
      [] OTHER -> NaT

\* One row of df = pd.DataFrame(self.all_news) with the analysis columns
\* (lines 331-332) and the converted storyTime (line 336).
row_of(news_item) ==
    [is_canadian_banking |-> Len(news_item.canadian_banks_mentioned) > 0,
     num_banks_mentioned |-> Len(news_item.canadian_banks_mentioned)]
    @@ [news_item EXCEPT !.storyTime = to_datetime(@)]

frame(news) == [i \in 1..Len(news) |-> row_of(news[i])]

\* Row a sorts strictly before row b: descending storyTime, NaT last.
comes_before(a, b) ==
    /\ a.storyTime # NaT
    /\ (b.storyTime = NaT \/ a.storyTime > b.storyTime)

Perms(n) == { p \in [1..n -> 1..n] : \A i, j \in 1..n : p[i] = p[j] => i = j }

\* df.sort_values('storyTime', ascending=False) (line 337): the default
\* kind is 'quicksort', which is not stable, so rows with equal keys may
\* come out in any order.
sort_values(rows) ==
    { srt \in { [i \in 1..Len(rows) |-> rows[p[i]]] : p \in Perms(Len(rows)) } :
         \A i, j \in 1..Len(rows) : i < j => ~comes_before(srt[j], srt[i]) }

\* The count that records a bank once and never adds to it.
count_bank_once(counts, bank) ==
    IF \E i \in 1..Len(counts) : counts[i].ticker = bank
    THEN counts
    ELSE Append(counts, [ticker |-> bank, count |-> 1])

\* bank_counts[bank] = bank_counts.get(bank, 0) + 1 (line 349); the dict is
\* a list of entries in insertion order.
count_bank(counts, bank) ==
    IF \E i \in 1..Len(counts) : counts[i].ticker = bank
    THEN [i \in 1..Len(counts) |->
             IF counts[i].ticker = bank
             THEN [counts[i] EXCEPT !.count = @ + 1] ELSE counts[i]]
    ELSE Append(counts, [ticker |-> bank, count |-> 1])

\* for bank in banks (line 348)
RECURSIVE count_banks(_, _)
count_banks(counts, banks) ==
    IF banks = <<>> THEN counts
    ELSE count_banks(count_bank(counts, Head(banks)), Tail(banks))

\* for banks in df['canadian_banks_mentioned'] (lines 346-349)
RECURSIVE bank_counts(_, _)
bank_counts(counts, rows) ==
    IF rows = <<>> THEN counts
    ELSE bank_counts(count_banks(counts, Head(rows).canadian_banks_mentioned), Tail(rows))

\* sorted(bank_counts.items(), key=lambda x: x[1], reverse=True) (line 352):
\* Python's sort is stable, entries with equal counts keep their order.
RECURSIVE sorted_by_count(_, _)
sorted_by_count(done, counts) ==
    IF counts = <<>> THEN done
    ELSE LET e == Head(counts)
             k == Cardinality({ i \in 1..Len(done) : done[i].count >= e.count })
         IN  sorted_by_count(SubSeq(done, 1, k) \o <<e>> \o SubSeq(done, k + 1, Len(done)),
                             Tail(counts))

NoLog == [warning |-> FALSE, total |-> 0, banking |-> 0, bank_lines |-> <<>>]

\* What _process_results can return and log for self.all_news (lines 321-356).
process_results(news) ==
    IF news = <<>>
    THEN { [df |-> <<>>, log |-> [NoLog EXCEPT !.warning = TRUE]] }
    ELSE { [df |-> d,
            log |-> [warning |-> FALSE,
                     total |-> Len(d),
                     banking |-> Cardinality({ i \in 1..Len(d) : d[i].is_canadian_banking }),
                     bank_lines |-> sorted_by_count(<<>>, bank_counts(<<>>, d))]]
           : d \in sort_values(frame(news)) }

\* return self._process_results() (line 213)
ProcessResults ==
    /\ pc = PcProcess
    /\ pc' = PcDone
    /\ \E r \in process_results(all_news) :
          /\ df' = r.df
          /\ agg_log' = r.log
    /\ UNCHANGED <<all_news, unique_stories, request_count, last, first_returned>>
    /\ UNCHANGED <<files, run_state, prev_run>>
    /\ UNCHANGED <<tag_vars, ticker_vars, race_vars, main_vars, nas_vars>>

NoCall == [description |-> "", ret |-> 0, count |-> 0, failed |-> FALSE, log |-> <<>>, kind |-> "none", ids |-> {}, no_id |-> 0]
NotTagged == [done |-> FALSE, calls |-> 0, plain |-> <<>>, fixed |-> <<>>]
NoStory == [symbols |-> None, primarySymbols |-> None, headlines |-> None, storyBody |-> None]
NoFrame == [state |-> "idle", attempt |-> 0, calls |-> 0, errors |-> <<>>, result |-> 0,
            waits |-> <<>>]
NoConfig == [max_retries |-> 0, retry_delay |-> 0, use_exponential_backoff |-> FALSE,
             max_backoff_delay |-> 0, request_delay |-> 0]
NoWire == [paired |-> FALSE, gap |-> 0, slept |-> 0]
NoRun == [ran |-> FALSE, ids |-> <<>>, unique |-> {}]

NoThreads == <<>>

\* main's locals at its first statement (street script lines 1044-1052,
\* collector script lines 370-371): nothing connected, status "unknown".
\* `exc` is the exception in flight ("" for none), `steps` the setup steps
\* completed so far.
main_frame(script, use_nas) ==
    [script |-> script, use_nas |-> use_nas, pos |-> "env",
     nas_conn |-> None, ssl_cert_path |-> None,
     status |-> "unknown", main_error |-> FALSE, total_news_items |-> 0,
     i |-> 1, all_news_summary |-> <<>>, total_news_count |-> 0,
     save_failed |-> {}, exc |-> "", steps |-> <<>>]

\* What main acts on: the SMB connection, the temporary certificate file,
\* the API client and the calls sent through it, the error_log, the
\* status each save_logs_to_nas call was given, the summary reports asked
\* for, and how main was left.
fresh_world ==
    [conn |-> "none", cert |-> "none", client |-> FALSE, api_calls |-> 0,
     errors |-> <<>>, logs |-> <<>>, reports |-> 0, exit |-> "running"]

NoMain == [main_frame("none", FALSE) EXCEPT !.pos = "idle"]
NoWorld == fresh_world
NoMkdir == [state |-> "idle", parts |-> <<>>, k |-> 1, found |-> {}, created |-> {},
            raced |-> {}, errors |-> <<>>, result |-> FALSE]

\* ComprehensiveNewsCollector.__init__ (lines 163-165), collect_news about to
\* start; the tagger and the ticker script are not running.
Init ==
    /\ all_news = <<>>
    /\ unique_stories = {}
    /\ request_count = 0
    /\ pc = 1
    /\ last = NoCall
    /\ first_returned = [s \in StoryIds |-> ""]
    /\ tag_story = NoStory
    /\ tag_result = NotTagged
    /\ cfg = NoConfig
    /\ inst = 0
    /\ gn = NoFrame
    /\ summary = <<>>
    /\ error_log = <<>>
    /\ main_state = "idle"
    /\ wire = NoWire
    /\ df = <<>>
    /\ agg_log = NoLog
    /\ files = <<>>
    /\ run_state = "collect"
    /\ prev_run = NoRun
    /\ thr = NoThreads
    /\ mn = NoMain
    /\ world = NoWorld
    /\ share = {}
    /\ mkdir = NoMkdir

Next == TickerSearch \/ SectorSearch \/ RegionSearch \/ ProcessResults

Spec == Init /\ [][Next]_vars

(***************************************************************************)
(* _check_bank_mentions on its own: both taggers applied to one news_item  *)
(***************************************************************************)
TagSymbols == { None, <<>>, <<"RY-CA">>, <<"RY">>, <<"ry-ca">>, <<"TD.TO">>,
                <<"XYZ", "BMO">>, <<"RY-CA-X">> }
TagPrimarySymbols == { None, <<>>, <<"CM-CA">>, <<"NA">> }
TagHeadlines == { None, "RBC profits rise", "ROYAL BANK OF CANADA beats",
                  "Royal Bank of", "National Bank outlook" }
TagBodies == { None, "", "Canada", "cibc and Laurentian bank" }

TagStories ==
    [symbols : TagSymbols, primarySymbols : TagPrimarySymbols,
     headlines : TagHeadlines, storyBody : TagBodies]

\* A news_item is at hand; the collector and the ticker script are not running.
TagInit ==
    /\ tag_story \in TagStories
    /\ tag_result = NotTagged
    /\ all_news = <<>>
    /\ unique_stories = {}
    /\ request_count = 0
    /\ pc = PcDone
    /\ last = NoCall
    /\ first_returned = [s \in StoryIds |-> ""]
    /\ cfg = NoConfig
    /\ inst = 0
    /\ gn = NoFrame
    /\ summary = <<>>
    /\ error_log = <<>>
    /\ main_state = "idle"
    /\ wire = NoWire
    /\ df = <<>>
    /\ agg_log = NoLog
    /\ files = <<>>
    /\ run_state = "idle"
    /\ prev_run = NoRun
    /\ thr = NoThreads
    /\ mn = NoMain
    /\ world = NoWorld
    /\ share = {}
    /\ mkdir = NoMkdir

\* How many times the taggers are called on the news_item.
MaxTagCalls == 2

\* mentioned = self._check_bank_mentions(news_item), in either script; the
\* function reads news_item and self.canadian_banks and assigns to neither.
TagStory ==
    /\ tag_result.calls < MaxTagCalls
    /\ tag_result' = [done |-> TRUE,
                      calls |-> tag_result.calls + 1,
                      plain |-> check_bank_mentions(tag_story),
                      fixed |-> check_bank_mentions_fixed(tag_story)]
    /\ UNCHANGED <<tag_story, collector_vars, ticker_vars, agg_vars, race_vars, main_vars, nas_vars>>

NextTag == TagStory

SpecTag == TagInit /\ [][NextTag]_vars

(***************************************************************************)
(* main of comprehensive_canadian_banks_news.py: _process_results, then    *)
(* the export of the DataFrame                                             *)
(***************************************************************************)
\* The most stories the collector holds when _process_results is called.
MaxStored == 3

\* The searches whose labels the stored stories carry: the first ticker
\* search and the Financial sector search.
AggPlanSteps == {1, Len(canadian_banks) + 1}

\* self.all_news once the searches are over: stories with distinct ids, each
\* stamped and tagged by the search that stored it, in retrieval order.
AggCollections ==
    UNION { { [i \in 1..n |->
                 news_item_of([id |-> "s" \o ToString(i), content |-> c[i], converts |-> TRUE],
                              collection_plan[k[i]].description, k[i])]
              : c \in [1..n -> AggContents],
                k \in { f \in [1..n -> AggPlanSteps] :
                          \A i, j \in 1..n : i < j => f[i] <= f[j] } }
            : n \in 0..MaxStored }

\* canadian_df = df[df['is_canadian_banking'] == True] (line 425)
RECURSIVE canadian_rows(_)
canadian_rows(rows) ==
    IF rows = <<>> THEN <<>>
    ELSE IF Head(rows).is_canadian_banking
         THEN <<Head(rows)>> \o canadian_rows(Tail(rows))
         ELSE canadian_rows(Tail(rows))

\* One row of summary_data (lines 437-453) for a bank.
summary_row(bank, rows) ==
    LET ticker_df == { i \in 1..Len(rows) :
                          bank.ticker \in SeqToSet(rows[i].canadian_banks_mentioned) }
    IN  [ticker |-> bank.ticker,
         bank |-> bank.name,
         total_news |-> Cardinality(ticker_df),
         as_primary |-> Cardinality({ i \in ticker_df :
                            /\ rows[i].primarySymbols # None
                            /\ bank.ticker \in SeqToSet(OrEmpty(rows[i].primarySymbols)) })]

\* The Summary sheet (lines 435-457): one row per bank of canadian_banks.
summary_data(rows) == [b \in 1..Len(canadian_banks) |-> summary_row(canadian_banks[b], rows)]

\* The files the save block writes, in order (lines 419-477).
output_files(rows) ==
    << [name |-> "comprehensive_news.csv", rows |-> Len(rows), sheet |-> <<>>] >>
    \o (IF canadian_rows(rows) # <<>>
        THEN << [name |-> "canadian_banking_news.csv",
                 rows |-> Len(canadian_rows(rows)), sheet |-> <<>>] >>
        ELSE <<>>)
    \o << [name |-> "news_summary.xlsx", rows |-> Len(canadian_rows(rows)),
           sheet |-> summary_data(rows)] >>

\* row.get('headlines', 'No headline')[:100] for canadian_df.head(5) (lines
\* 481-484) raises TypeError when a headline is None.
samples_raise(rows) ==
    \E i \in 1..Min(5, Len(canadian_rows(rows))) : canadian_rows(rows)[i].headlines = None

\* collect_news has returned df; main saves it (lines 412-477). A write may
\* raise (OSError, a missing Excel engine): the files written before it
\* stay, the exception is logged and re-raised (lines 488-490).
SaveResults ==
    /\ run_state = "collect"
    /\ pc = PcDone
    /\ ~prev_run.ran
    /\ IF df = <<>>
       THEN /\ run_state' = "complete"
            /\ UNCHANGED files
       ELSE \E written \in 0..Len(output_files(df)) :
               /\ files' = SubSeq(output_files(df), 1, written)
               /\ run_state' = IF written = Len(output_files(df)) THEN "samples" ELSE "aborted"
    /\ UNCHANGED <<df, agg_log, prev_run>>
    /\ UNCHANGED <<collector_vars, tag_vars, ticker_vars, race_vars, main_vars, nas_vars>>

\* The sample headlines (lines 479-484), the last statement of the try block.
SampleHeadlines ==
    /\ run_state = "samples"
    /\ run_state' = IF samples_raise(df) THEN "aborted" ELSE "complete"
    /\ UNCHANGED <<df, agg_log, files, prev_run>>
    /\ UNCHANGED <<collector_vars, tag_vars, ticker_vars, race_vars, main_vars, nas_vars>>

\* df['search_method'].unique(): the labels in order of first appearance
RECURSIVE unique_methods(_, _)
unique_methods(found, rows) ==
    IF rows = <<>> THEN found
    ELSE unique_methods(IF Head(rows).search_method \in SeqToSet(found)
                        THEN found ELSE Append(found, Head(rows).search_method),
                        Tail(rows))

\* The count that is the size of the whole DataFrame.
method_count_total(rows, method) == Len(rows)

\* count = len(df[df['search_method'] == method])
\* (comprehensive_news_strategy.py line 397)
method_count(rows, method) ==
    Cardinality({ i \in 1..Len(rows) : rows[i].search_method = method })

\* "Search methods used:" of the summary file
\* (comprehensive_news_strategy.py lines 395-398)
search_method_lines(rows) ==
    LET methods == unique_methods(<<>>, rows)
    IN  [m \in 1..Len(methods) |->
            [method |-> methods[m], count |-> method_count(rows, methods[m])]]

\* The files main of comprehensive_news_strategy.py writes (lines 380-398).
strategy_files(rows) ==
    << [name |-> "comprehensive_news.csv", rows |-> Len(rows), sheet |-> <<>>],
       [name |-> "canadian_banking_news.csv", rows |-> Len(canadian_rows(rows)),
        sheet |-> <<>>],
       [name |-> "news_summary.txt", rows |-> Len(rows),
        sheet |-> search_method_lines(rows)] >>

\* main of comprehensive_news_strategy.py saves the DataFrame its collector
\* returned (lines 373-398); its _process_results and the records of its
\* _execute_search are those of the collector above.
SaveResultsStrategy ==
    /\ run_state = "collect"
    /\ pc = PcDone
    /\ ~prev_run.ran
    /\ df # <<>>
    /\ files' = strategy_files(df)
    /\ run_state' = "complete"
    /\ UNCHANGED <<df, agg_log, prev_run>>
    /\ UNCHANGED <<collector_vars, tag_vars, ticker_vars, race_vars, main_vars, nas_vars>>

\* The same searches deliver the same stories with two of them exchanged:
\* the search at each position stamps the story it now stores.
redeliveries(news) ==
    { [i \in 1..Len(news) |->
          [news[IF i = a THEN b ELSE IF i = b THEN a ELSE i]
              EXCEPT !.search_method = news[i].search_method,
                     !.retrieved_at = news[i].retrieved_at]]
      : a \in 1..Len(news), b \in 1..Len(news) }

\* main is run again on the same stories, delivered in another order; the
\* result of the run before is kept for comparison, and the second run is
\* followed up to the return of _process_results.
Redeliver ==
    /\ run_state = "collect"
    /\ pc = PcDone
    /\ ~prev_run.ran
    /\ prev_run' = [ran |-> TRUE,
                    ids |-> [i \in 1..Len(df) |-> df[i].id],
                    unique |-> unique_stories]
    /\ all_news' \in redeliveries(all_news)
    /\ pc' = PcProcess
    /\ df' = <<>>
    /\ agg_log' = NoLog
    /\ UNCHANGED <<unique_stories, request_count, last, first_returned>>
    /\ UNCHANGED <<files, run_state>>
    /\ UNCHANGED <<tag_vars, ticker_vars, race_vars, main_vars, nas_vars>>

\* collect_news has run its searches and is about to call _process_results.
AggInit ==
    /\ all_news \in AggCollections
    /\ unique_stories = { all_news[i].id : i \in 1..Len(all_news) }
    /\ request_count = Len(collection_plan)
    /\ pc = PcProcess
    /\ last = NoCall
    /\ first_returned = [s \in StoryIds |-> ""]
    /\ df = <<>>
    /\ agg_log = NoLog
    /\ files = <<>>
    /\ run_state = "collect"
    /\ prev_run = NoRun
    /\ thr = NoThreads
    /\ mn = NoMain
    /\ world = NoWorld
    /\ share = {}
    /\ mkdir = NoMkdir
    /\ tag_story = NoStory
    /\ tag_result = NotTagged
    /\ cfg = NoConfig
    /\ inst = 0
    /\ gn = NoFrame
    /\ summary = <<>>
    /\ error_log = <<>>
    /\ main_state = "idle"
    /\ wire = NoWire

NextAgg ==
    ProcessResults \/ SaveResults \/ SampleHeadlines \/ SaveResultsStrategy \/ Redeliver

SpecAgg == AggInit /\ [][NextAgg]_vars

(***************************************************************************)
(* Two executions of _search_news on one collector, interleaved statement  *)
(* by statement (lines 265-285 of comprehensive_canadian_banks_news.py)    *)
(***************************************************************************)
\* The two strategy executions that share the collector.
Executions == {1, 2}

\* description of each execution's search
race_description(t) == collection_plan[Len(canadian_banks) + t].description

\* An execution whose API call has returned stands before the loop over
\* response.data (line 265).
race_frame(t, data) ==
    [pos |-> "test", items |-> data, description |-> race_description(t),
     new_count |-> 0, ret |-> 0, failed |-> FALSE]

\* Two executions have received their responses; the collector is empty.
RaceInit ==
    /\ thr \in [Executions -> { race_frame(1, d) : d \in Responses } \cup
                              { race_frame(2, d) : d \in Responses }]
    /\ \A t \in Executions : thr[t].description = race_description(t)
    /\ all_news = <<>>
    /\ unique_stories = {}
    /\ request_count = 2
    /\ pc = 0
    /\ last = NoCall
    /\ first_returned = [s \in StoryIds |-> ""]
    /\ tag_story = NoStory
    /\ tag_result = NotTagged
    /\ cfg = NoConfig
    /\ inst = 0
    /\ gn = NoFrame
    /\ summary = <<>>
    /\ error_log = <<>>
    /\ main_state = "idle"
    /\ wire = NoWire
    /\ df = <<>>
    /\ agg_log = NoLog
    /\ files = <<>>
    /\ run_state = "idle"
    /\ prev_run = NoRun
    /\ mn = NoMain
    /\ world = NoWorld
    /\ share = {}
    /\ mkdir = NoMkdir

\* for item in response.data: story_id = getattr(item, 'id', None); the test
\* of line 269. A payload that fails it is passed over.
RaceTest(t) ==
    /\ thr[t].pos = "test"
    /\ thr[t].items # <<>>
    /\ thr' = [thr EXCEPT ![t] =
                  IF is_new(Head(thr[t].items).id, unique_stories)
                  THEN [@ EXCEPT !.pos = "add"]
                  ELSE [@ EXCEPT !.items = Tail(@)]]
    /\ UNCHANGED <<all_news, unique_stories, request_count, pc, last, first_returned>>
    /\ UNCHANGED <<tag_vars, ticker_vars, agg_vars, main_vars, nas_vars>>

\* self.unique_stories.add(story_id) (line 270)
RaceAdd(t) ==
    /\ thr[t].pos = "add"
    /\ unique_stories' = unique_stories \cup {Head(thr[t].items).id}
    /\ thr' = [thr EXCEPT ![t].pos = "convert"]
    /\ UNCHANGED <<all_news, request_count, pc, last, first_returned>>
    /\ UNCHANGED <<tag_vars, ticker_vars, agg_vars, main_vars, nas_vars>>

\* news_item = item.to_dict() ..., stamped and tagged (lines 273-278); when
\* this raises the except clause returns 0 (lines 287-293).
RaceConvert(t) ==
    /\ thr[t].pos = "convert"
    /\ thr' = [thr EXCEPT ![t] =
                  IF Head(thr[t].items).converts
                  THEN [@ EXCEPT !.pos = "append"]
                  ELSE [@ EXCEPT !.pos = "done", !.ret = 0, !.failed = TRUE]]
    /\ UNCHANGED <<all_news, unique_stories, request_count, pc, last, first_returned>>
    /\ UNCHANGED <<tag_vars, ticker_vars, agg_vars, main_vars, nas_vars>>

\* self.all_news.append(news_item); new_count += 1 (lines 280-281)
RaceAppend(t) ==
    /\ thr[t].pos = "append"
    /\ all_news' = Append(all_news,
                          news_item_of(Head(thr[t].items), thr[t].description, request_count))
    /\ thr' = [thr EXCEPT ![t] = [@ EXCEPT !.pos = "test", !.items = Tail(@),
                                            !.new_count = @ + 1]]
    /\ UNCHANGED <<unique_stories, request_count, pc, last, first_returned>>
    /\ UNCHANGED <<tag_vars, ticker_vars, agg_vars, main_vars, nas_vars>>

\* return new_count (line 285)
RaceReturn(t) ==
    /\ thr[t].pos = "test"
    /\ thr[t].items = <<>>
    /\ thr' = [thr EXCEPT ![t] = [@ EXCEPT !.pos = "done", !.ret = thr[t].new_count]]
    /\ UNCHANGED <<all_news, unique_stories, request_count, pc, last, first_returned>>
    /\ UNCHANGED <<tag_vars, ticker_vars, agg_vars, main_vars, nas_vars>>

NextRace ==
    \E t \in Executions :
        RaceTest(t) \/ RaceAdd(t) \/ RaceConvert(t) \/ RaceAppend(t) \/ RaceReturn(t)

SpecRace == RaceInit /\ [][NextRace]_vars

(***************************************************************************)
(* get_news_for_ticker inside the institution loop of main                 *)
(* (street_account_news_canadian_banks.py)                                 *)
(***************************************************************************)
\* The largest config["api_settings"]["max_retries"] tried.
MaxRetries == 3

\* How many institutions config["monitored_institutions"] lists.
NumInstitutions == 2

\* The most news items one response carries.
MaxItems == 2

\* What api_instance.get_street_account_headlines can do in one attempt:
\* return n items (0: no response or no data), or raise.
TickerApiOutcomes ==
    { [kind |-> "data", n |-> n, msg |-> ""] : n \in 0..MaxItems }
    \cup { [kind |-> "error", n |-> 0, msg |-> m] : m \in ApiErrors }

\* The except clause re-raising once the attempts are used up.
on_attempt_error_reraise(attempt, max_retries, error_msg) ==
    IF attempt < max_retries - 1 THEN "retry" ELSE "raise"

\* The except clause of get_news_for_ticker (lines 807-837): what follows a
\* failed attempt. Every Exception is caught; nothing is re-raised.
on_attempt_error(attempt, max_retries, error_msg) ==
    IF attempt < max_retries - 1 THEN "retry" ELSE "give_up"

\* The largest retry_delay, max_backoff_delay and request_delay tried (seconds).
MaxDelay == 2

\* 2 ** attempt
RECURSIVE Pow2(_)
Pow2(k) == IF k = 0 THEN 1 ELSE 2 * Pow2(k - 1)

\* The delay of a retry that doubles without the cap.
actual_delay_uncapped(attempt, api_settings) ==
    IF api_settings.use_exponential_backoff
    THEN api_settings.retry_delay * Pow2(attempt)
    ELSE api_settings.retry_delay

\* actual_delay of a failed attempt that is not the last (lines 810-824)
actual_delay(attempt, api_settings) ==
    IF api_settings.use_exponential_backoff
    THEN Min(api_settings.retry_delay * Pow2(attempt), api_settings.max_backoff_delay)
    ELSE api_settings.retry_delay

\* A call reaches the service: the time slept since the call before it is
\* the gap between the two.
api_call(w) == [paired |-> TRUE, gap |-> w.slept, slept |-> 0]
first_api_call(w) == [paired |-> FALSE, gap |-> 0, slept |-> 0]

\* time.sleep(seconds)
sleep(w, seconds) == [w EXCEPT !.slept = @ + seconds]

\* main has set up the API client (line 1109) with a validated config; the
\* collector and the tagger are not running.
TickerInit ==
    /\ cfg \in [max_retries : 0..MaxRetries, retry_delay : 1..MaxDelay,
                use_exponential_backoff : BOOLEAN, max_backoff_delay : 1..MaxDelay,
                request_delay : 1..MaxDelay]
    /\ inst = 1
    /\ gn = NoFrame
    /\ summary = <<>>
    /\ error_log = <<>>
    /\ main_state = "filters"
    /\ wire = NoWire
    /\ df = <<>>
    /\ agg_log = NoLog
    /\ files = <<>>
    /\ run_state = "idle"
    /\ prev_run = NoRun
    /\ thr = NoThreads
    /\ mn = NoMain
    /\ world = NoWorld
    /\ share = {}
    /\ mkdir = NoMkdir
    /\ all_news = <<>>
    /\ unique_stories = {}
    /\ request_count = 0
    /\ pc = PcDone
    /\ last = NoCall
    /\ first_returned = [s \in StoryIds |-> ""]
    /\ tag_story = NoStory
    /\ tag_result = NotTagged

\* available_filters = get_available_filters(filters_api_instance) (line
\* 1115): one call to get_street_account_filters (line 647), whose failure
\* get_available_filters catches; the institution loop follows at once.
GetAvailableFilters ==
    /\ main_state = "filters"
    /\ main_state' = "loop"
    /\ wire' = first_api_call(wire)
    /\ UNCHANGED <<cfg, inst, gn, summary, error_log>>
    /\ UNCHANGED <<collector_vars, tag_vars, agg_vars, race_vars, main_vars, nas_vars>>

\* news_items = get_news_for_ticker(...) is called (line 1126); with
\* max_retries = 0 the for loop has no pass and line 839 returns [].
CallGetNews ==
    /\ main_state = "loop"
    /\ inst \in 1..NumInstitutions
    /\ gn.state = "idle"
    /\ gn' = [state |-> IF cfg.max_retries = 0 THEN "returned" ELSE "attempting",
              attempt |-> 0, calls |-> 0, errors |-> <<>>, result |-> 0,
              waits |-> <<>>]
    /\ UNCHANGED <<cfg, inst, summary, error_log, main_state, wire>>
    /\ UNCHANGED <<collector_vars, tag_vars, agg_vars, race_vars, main_vars, nas_vars>>

\* One pass of the for loop in which the API call returns (lines 782-805).
AttemptReturns ==
    /\ gn.state = "attempting"
    /\ \E api \in TickerApiOutcomes :
          /\ api.kind = "data"
          /\ gn' = [gn EXCEPT !.state = "returned", !.calls = @ + 1, !.result = api.n]
    /\ wire' = api_call(wire)
    /\ UNCHANGED <<cfg, inst, summary, error_log, main_state>>
    /\ UNCHANGED <<collector_vars, tag_vars, agg_vars, race_vars, main_vars, nas_vars>>

\* One pass of the for loop in which the API call raises (lines 807-837):
\* a retry sleeps actual_delay (line 826), the last failure is logged.
AttemptRaises ==
    /\ gn.state = "attempting"
    /\ \E api \in TickerApiOutcomes :
          /\ api.kind = "error"
          /\ LET next == on_attempt_error(gn.attempt, cfg.max_retries, api.msg)
                 seen == Append(gn.errors, api.msg)
                 delay == actual_delay(gn.attempt, cfg)
             IN  CASE next = "retry" ->
                        /\ gn' = [gn EXCEPT !.attempt = @ + 1, !.calls = @ + 1,
                                            !.errors = seen,
                                            !.waits = Append(@, delay)]
                        /\ wire' = sleep(api_call(wire), delay)
                        /\ UNCHANGED <<error_log, main_state>>
                   [] next = "give_up" ->
                        /\ gn' = [gn EXCEPT !.state = "returned", !.calls = @ + 1,
                                            !.errors = seen, !.result = 0]
                        /\ error_log' = Append(error_log,
                               [error_type |-> "api_query", ticker |-> inst,
                                attempts |-> gn.attempt + 1])
                        /\ wire' = api_call(wire)
                        /\ UNCHANGED main_state
                   [] OTHER ->
                        /\ gn' = [gn EXCEPT !.state = "raised", !.calls = @ + 1,
                                            !.errors = seen]
                        /\ main_state' = "failed"
                        /\ wire' = api_call(wire)
                        /\ UNCHANGED error_log
    /\ UNCHANGED <<cfg, inst, summary>>
    /\ UNCHANGED <<collector_vars, tag_vars, agg_vars, race_vars, main_vars, nas_vars>>

\* main takes the returned list (lines 1135-1178): one summary entry for the
\* ticker, the pause between institutions (lines 1177-1178), then the next one.
NextInstitution ==
    /\ main_state = "loop"
    /\ gn.state = "returned"
    /\ summary' = Append(summary, [ticker |-> inst, news_count |-> gn.result])
    /\ inst' = inst + 1
    /\ gn' = NoFrame
    /\ main_state' = IF inst = NumInstitutions THEN "done" ELSE "loop"
    /\ wire' = IF inst < NumInstitutions THEN sleep(wire, cfg.request_delay) ELSE wire
    /\ UNCHANGED <<cfg, error_log>>
    /\ UNCHANGED <<collector_vars, tag_vars, agg_vars, race_vars, main_vars, nas_vars>>

NextTicker ==
    GetAvailableFilters \/ CallGetNews \/ AttemptReturns \/ AttemptRaises \/ NextInstitution

SpecTicker == TickerInit /\ [][NextTicker]_vars

(***************************************************************************)
(* main: setup, run, except and finally                                    *)
(* (street_account_news_canadian_banks.py lines 1026-1228 and              *)
(*  comprehensive_canadian_banks_news.py lines 359-505)                    *)
(***************************************************************************)
\* raise <e> inside main's try block: control goes to the except clause
raise_in_main(m, e) == [m EXCEPT !.pos = "except", !.exc = e]

\* log_error(message, error_type, details) (lines 70-79)
log_error(w, error_type) == [w EXCEPT !.errors = Append(@, error_type)]

\* a setup step has completed
step_done(m, step, next) == [m EXCEPT !.steps = Append(@, step), !.pos = next]

\* main has been entered: the street script with or without NAS (line 1234),
\* the collector script always with it. Without NAS the street script goes
\* straight to load_config_locally (lines 1069-1072).
MainInit ==
    /\ mn \in { [main_frame("street", b) EXCEPT !.pos = IF b THEN "env" ELSE "config"]
                  : b \in BOOLEAN }
              \cup { main_frame("collector", TRUE) }
    /\ world = fresh_world
    /\ thr = NoThreads
    /\ share = {}
    /\ mkdir = NoMkdir
    /\ all_news = <<>>
    /\ unique_stories = {}
    /\ request_count = 0
    /\ pc = PcDone
    /\ last = NoCall
    /\ first_returned = [s \in StoryIds |-> ""]
    /\ tag_story = NoStory
    /\ tag_result = NotTagged
    /\ cfg = NoConfig
    /\ inst = 0
    /\ gn = NoFrame
    /\ summary = <<>>
    /\ error_log = <<>>
    /\ main_state = "idle"
    /\ wire = NoWire
    /\ df = <<>>
    /\ agg_log = NoLog
    /\ files = <<>>
    /\ run_state = "idle"
    /\ prev_run = NoRun

\* Step 1: validate_environment_variables() (lines 137-176, called at 1058);
\* the collector checks inline (lines 376-383) and logs nothing itself.
ValidateEnvironment ==
    /\ mn.pos = "env"
    /\ \E present \in BOOLEAN :
          IF present
          THEN /\ mn' = step_done(mn, "env", "connect")
               /\ world' = world
          ELSE /\ mn' = raise_in_main(mn, "ValueError")
               /\ world' = IF mn.script = "street"
                           THEN log_error(world, "environment_validation")
                           ELSE world
    /\ UNCHANGED <<collector_vars, tag_vars, ticker_vars, agg_vars, race_vars, nas_vars>>

\* Step 2: nas_conn = get_nas_connection(); if not nas_conn: raise
\* RuntimeError (lines 1062-1064, 179-217; collector 387-389, 43-65).
ConnectNas ==
    /\ mn.pos = "connect"
    /\ \E connected \in BOOLEAN :
          IF connected
          THEN /\ mn' = [step_done(mn, "nas", IF mn.script = "street" THEN "config" ELSE "ssl")
                            EXCEPT !.nas_conn = "conn"]
               /\ world' = [world EXCEPT !.conn = "open"]
          ELSE /\ mn' = raise_in_main(mn, "RuntimeError")
               /\ world' = IF mn.script = "street"
                           THEN log_error(world, "nas_connection")
                           ELSE world
    /\ UNCHANGED <<collector_vars, tag_vars, ticker_vars, agg_vars, race_vars, nas_vars>>

\* Step 3: config = load_config_from_nas(nas_conn) or load_config_locally()
\* (lines 1066-1074, 334-398), validate_config_structure included (269-331).
\* The file may be unreadable or its structure invalid; both raise.
LoadConfig ==
    /\ mn.pos = "config"
    /\ \E outcome \in {"ok", "unreadable", "invalid"} :
          CASE outcome = "ok" ->
                 /\ mn' = step_done(mn, "config", IF mn.use_nas THEN "ssl" ELSE "client")
                 /\ world' = world
            [] outcome = "unreadable" ->
                 /\ mn' = raise_in_main(mn, "FileNotFoundError")
                 /\ world' = IF mn.use_nas THEN log_error(world, "nas_download") ELSE world
            [] OTHER ->
                 /\ mn' = raise_in_main(mn, "ValueError")
                 /\ world' = log_error(world, "config_validation")
    /\ UNCHANGED <<collector_vars, tag_vars, ticker_vars, agg_vars, race_vars, nas_vars>>

\* main going on with whatever setup_ssl_certificate returned.
check_ssl_cert_path_unchecked(m, path) ==
    IF path = None
    THEN [m EXCEPT !.pos = "client"]
    ELSE [step_done(m, "ssl", "client") EXCEPT !.ssl_cert_path = path]

\* ssl_cert_path = ...; if not ssl_cert_path: raise RuntimeError("Failed to
\* set up SSL certificate") (lines 1079-1081; collector 393-395)
check_ssl_cert_path(m, path) ==
    IF path = None
    THEN raise_in_main([m EXCEPT !.ssl_cert_path = path], "RuntimeError")
    ELSE [step_done(m, "ssl", "client") EXCEPT !.ssl_cert_path = path]

\* Step 4: ssl_cert_path = setup_ssl_certificate(nas_conn); if not
\* ssl_cert_path: raise RuntimeError (lines 1079-1081, 401-431; collector
\* 393-395, 68-93). The function returns None when the download fails and
\* when anything after NamedTemporaryFile(delete=False) raises, in which
\* case the file exists already.
SetupSslCertificate ==
    /\ mn.pos = "ssl"
    /\ \E outcome \in {"ok", "download_failed", "write_failed"} :
          CASE outcome = "ok" ->
                 /\ mn' = check_ssl_cert_path(mn, "cert.cer")
                 /\ world' = [world EXCEPT !.cert = "file"]
            [] outcome = "download_failed" ->
                 /\ mn' = check_ssl_cert_path(mn, None)
                 /\ world' = IF mn.script = "street"
                             THEN log_error(world, "nas_download")
                             ELSE world
            [] OTHER ->
                 /\ mn' = check_ssl_cert_path(mn, None)
                 /\ world' = [world EXCEPT !.cert = "file"]
    /\ UNCHANGED <<collector_vars, tag_vars, ticker_vars, agg_vars, race_vars, nas_vars>>

\* Steps 5 and 6: setup_proxy_configuration() and setup_factset_api_client()
\* (lines 1083-1098, 434-483; collector 397-403), or the plain Configuration
\* of the local mode. Building the configuration may raise; it sends nothing.
SetupApiClient ==
    /\ mn.pos = "client"
    /\ \E configured \in BOOLEAN :
          mn' = IF configured
                THEN step_done(mn, "client", "open")
                ELSE raise_in_main(mn, "Exception")
    /\ world' = world
    /\ UNCHANGED <<collector_vars, tag_vars, ticker_vars, agg_vars, race_vars, nas_vars>>

\* calculate_date_range() and `with ApiClient(api_configuration) as
\* api_client` with its API instances (lines 1100-1112; collector 406-407).
OpenApiClient ==
    /\ mn.pos = "open"
    /\ mn' = [mn EXCEPT !.pos = IF mn.script = "street" THEN "filters" ELSE "collect"]
    /\ world' = [world EXCEPT !.client = TRUE]
    /\ UNCHANGED <<collector_vars, tag_vars, ticker_vars, agg_vars, race_vars, nas_vars>>

\* available_filters = get_available_filters(filters_api_instance) (line
\* 1115): one API call; its failure is logged and swallowed (lines 706-712).
MainGetFilters ==
    /\ mn.pos = "filters"
    /\ mn' = [mn EXCEPT !.pos = "loop"]
    /\ \E answered \in BOOLEAN :
          world' = [(IF answered THEN world ELSE log_error(world, "filter_retrieval"))
                       EXCEPT !.api_calls = @ + 1]
    /\ UNCHANGED <<collector_vars, tag_vars, ticker_vars, agg_vars, race_vars, nas_vars>>

\* The rest of a pass once save_news_to_file has returned (lines
\* 1144-1178): the summary entry, the running total, the next institution.
\* Line 1154 raises TypeError when an item's primarySymbols is None.
summary_entry(m, n, saved, none_primary) ==
    LET entry == [ticker |-> m.i, news_count |-> n]
        after == IF m.i < NumInstitutions THEN "loop" ELSE "summary"
        noted == [m EXCEPT !.save_failed = IF saved THEN @ ELSE @ \cup {m.i}]
    IN  IF n > 0 /\ none_primary
        THEN raise_in_main(noted, "TypeError")
        ELSE [noted EXCEPT !.all_news_summary = Append(@, entry),
                           !.total_news_count = @ + n,
                           !.i = @ + 1,
                           !.pos = after]

\* A pass of the loop in which a failed save ends the run.
institution_step_save_fatal(m, n, saved, none_primary) ==
    IF n > 0 /\ ~saved
    THEN raise_in_main([m EXCEPT !.save_failed = @ \cup {m.i}], "OSError")
    ELSE summary_entry(m, n, saved, none_primary)

\* What a pass of the loop does to main's locals (lines 1135-1178): the
\* value save_news_to_file returns is not read.
institution_step(m, n, saved, none_primary) ==
    summary_entry(m, n, saved, none_primary)

\* One pass of the institution loop (lines 1118-1178). get_news_for_ticker
\* makes `calls` API calls and returns n items (it raises nothing, lines
\* 807-839). For a non-empty list save_news_to_file runs and may fail
\* (returns False after log_error "save_news", lines 931-940; the return
\* value is not read), then the summary entry is built: line 1154 raises
\* TypeError when an item's primarySymbols is None.
ProcessInstitution ==
    /\ mn.pos = "loop"
    /\ \E n \in 0..MaxItems, calls \in 0..MaxRetries, saved \in BOOLEAN, none_primary \in BOOLEAN :
          /\ n > 0 => calls > 0
          /\ n = 0 => (saved /\ ~none_primary)
          /\ LET w == [world EXCEPT !.api_calls = @ + calls]
             IN  world' = IF saved THEN w ELSE log_error(w, "save_news")
          /\ mn' = institution_step(mn, n, saved, none_primary)
    /\ UNCHANGED <<collector_vars, tag_vars, ticker_vars, agg_vars, race_vars, nas_vars>>

\* Step 9: create_summary_report(nas_conn, all_news_summary), which catches
\* its own failures (lines 1015-1020), then the stage summary is updated
\* (lines 1180-1194).
CreateSummaryReport ==
    /\ mn.pos = "summary"
    /\ mn' = [mn EXCEPT !.total_news_items = mn.total_news_count,
                        !.status = "completed",
                        !.pos = "finally_logs"]
    /\ \E written \in BOOLEAN :
          world' = [(IF written THEN world ELSE log_error(world, "summary_report"))
                       EXCEPT !.reports = @ + 1]
    /\ UNCHANGED <<collector_vars, tag_vars, ticker_vars, agg_vars, race_vars, nas_vars>>

\* collector.collect_news(days_back=30) and the export (collector lines
\* 406-486): every search of the plan is sent; the export may raise.
CollectorRun ==
    /\ mn.pos = "collect"
    /\ world' = [world EXCEPT !.api_calls = @ + Len(collection_plan)]
    /\ \E exported \in BOOLEAN :
          mn' = IF exported
                THEN [mn EXCEPT !.pos = "finally_close"]
                ELSE raise_in_main(mn, "Exception")
    /\ UNCHANGED <<collector_vars, tag_vars, ticker_vars, agg_vars, race_vars, nas_vars>>

\* An except clause that leaves the stage summary as it is.
on_main_exception_silent(m) ==
    [m EXCEPT !.pos = IF m.script = "street" THEN "finally_logs" ELSE "finally_close"]

\* What the except clause does to main's locals (lines 1196-1212; collector
\* 488-490); the exception stays in flight.
on_main_exception(m) ==
    IF m.script = "street"
    THEN [m EXCEPT !.status = "failed", !.main_error = TRUE, !.pos = "finally_logs"]
    ELSE [m EXCEPT !.pos = "finally_close"]

\* except Exception as e (lines 1196-1212): status "failed", the error
\* recorded in the stage summary and in the error log, then `raise`. The
\* collector's clause only logs and re-raises (lines 488-490).
OnMainException ==
    /\ mn.pos = "except"
    /\ mn' = on_main_exception(mn)
    /\ world' = IF mn.script = "street" THEN log_error(world, "main_execution") ELSE world
    /\ UNCHANGED <<collector_vars, tag_vars, ticker_vars, agg_vars, race_vars, nas_vars>>

\* finally: if nas_conn: save_logs_to_nas(nas_conn, stage_summary) inside
\* try/except Exception (lines 1215-1220). The call may raise; a warning
\* is all that follows.
FinallySaveLogs ==
    /\ mn.pos = "finally_logs"
    /\ mn' = [mn EXCEPT !.pos = "finally_close"]
    /\ IF mn.nas_conn # None
       THEN \E saved \in BOOLEAN :
               world' = [world EXCEPT !.logs = Append(@, [status |-> mn.status,
                                                          saved |-> saved])]
       ELSE world' = world
    /\ UNCHANGED <<collector_vars, tag_vars, ticker_vars, agg_vars, race_vars, nas_vars>>

\* finally: if nas_conn: nas_conn.close() (lines 1223-1225; collector 494-496)
FinallyClose ==
    /\ mn.pos = "finally_close"
    /\ mn' = [mn EXCEPT !.pos = "cleanup"]
    /\ world' = IF mn.nas_conn # None THEN [world EXCEPT !.conn = "closed"] ELSE world
    /\ UNCHANGED <<collector_vars, tag_vars, ticker_vars, agg_vars, race_vars, nas_vars>>

\* cleanup_temporary_files(ssl_cert_path) (lines 486-495, called at 1227;
\* collector 498-503): os.unlink when the path is set, a failure of which is
\* swallowed. Then main is left, by return or with the exception in flight.
CleanupTemporaryFiles ==
    /\ mn.pos = "cleanup"
    /\ mn' = [mn EXCEPT !.pos = "exited"]
    /\ \E unlinked \in BOOLEAN :
          world' = [world EXCEPT
                       !.cert = IF mn.ssl_cert_path # None /\ unlinked THEN "removed" ELSE @,
                       !.exit = IF mn.exc = "" THEN "returned" ELSE "raised"]
    /\ UNCHANGED <<collector_vars, tag_vars, ticker_vars, agg_vars, race_vars, nas_vars>>

NextMain ==
    \/ ValidateEnvironment \/ ConnectNas \/ LoadConfig \/ SetupSslCertificate
    \/ SetupApiClient \/ OpenApiClient \/ MainGetFilters \/ ProcessInstitution
    \/ CreateSummaryReport \/ CollectorRun \/ OnMainException
    \/ FinallySaveLogs \/ FinallyClose \/ CleanupTemporaryFiles

SpecMain == MainInit /\ [][NextMain]_vars

(***************************************************************************)
(* nas_create_directory_recursive on a share that another client writes to *)
(* (street_account_news_canadian_banks.py lines 550-595)                   *)
(***************************************************************************)
\* str.lstrip("/") and str.rstrip("/")
RECURSIVE lstrip_slash(_)
lstrip_slash(s) ==
    IF Len(s) > 0 /\ SubSeq(s, 1, 1) = "/" THEN lstrip_slash(SubSeq(s, 2, Len(s))) ELSE s

RECURSIVE rstrip_slash(_)
rstrip_slash(s) ==
    IF Len(s) > 0 /\ SubSeq(s, Len(s), Len(s)) = "/"
    THEN rstrip_slash(SubSeq(s, 1, Len(s) - 1))
    ELSE s

\* [part for part in s.split("/") if part], `part` being the component read
\* so far
RECURSIVE split_parts(_, _)
split_parts(s, part) ==
    LET done == IF part = "" THEN <<>> ELSE <<part>>
    IN  IF Len(s) = 0 THEN done
        ELSE IF SubSeq(s, 1, 1) = "/"
             THEN done \o split_parts(SubSeq(s, 2, Len(s)), "")
             ELSE split_parts(SubSeq(s, 2, Len(s)), part \o SubSeq(s, 1, 1))

\* normalized_path = dir_path.strip("/").rstrip("/") and its components
\* (lines 553-562); the empty list stands for both rejections
path_parts(dir_path) ==
    LET normalized_path == rstrip_slash(rstrip_slash(lstrip_slash(dir_path)))
    IN  IF normalized_path = "" THEN <<>> ELSE split_parts(normalized_path, "")

\* current_path once the loop has reached component k (line 567)
RECURSIVE current_path(_, _)
current_path(parts, k) ==
    IF k = 0 THEN ""
    ELSE IF k = 1 THEN parts[1]
    ELSE current_path(parts, k - 1) \o "/" \o parts[k]

\* The paths the function is called with: the logs and data directories of
\* the configuration, written with and without stray slashes, and paths
\* that hold no component.
DirPaths == {"", "//", "Logs", "/Out/Logs/", "Out//Data/RY_CA"}

\* The frame of a call: the components, the index of the one in hand, the
\* directories it found and created, those whose creation was refused
\* because they had appeared meanwhile, the errors logged, the result.
mkdir_frame(dir_path) ==
    [state |-> "called", parts |-> path_parts(dir_path), k |-> 1,
     found |-> {}, created |-> {}, raced |-> {}, errors |-> <<>>, result |-> FALSE]

\* The function is called on a share that holds some of the path already.
NasInit ==
    /\ mkdir \in { mkdir_frame(d) : d \in DirPaths }
    /\ share \in { { current_path(mkdir.parts, j) : j \in 1..n } : n \in 0..Len(mkdir.parts) }
    /\ mn = NoMain
    /\ world = NoWorld
    /\ thr = NoThreads
    /\ all_news = <<>>
    /\ unique_stories = {}
    /\ request_count = 0
    /\ pc = PcDone
    /\ last = NoCall
    /\ first_returned = [s \in StoryIds |-> ""]
    /\ tag_story = NoStory
    /\ tag_result = NotTagged
    /\ cfg = NoConfig
    /\ inst = 0
    /\ gn = NoFrame
    /\ summary = <<>>
    /\ error_log = <<>>
    /\ main_state = "idle"
    /\ wire = NoWire
    /\ df = <<>>
    /\ agg_log = NoLog
    /\ files = <<>>
    /\ run_state = "idle"
    /\ prev_run = NoRun

\* `continue` or the end of the for loop: the next component, or return True
\* (line 595)
next_part(m) ==
    IF m.k = Len(m.parts)
    THEN [m EXCEPT !.state = "returned", !.result = TRUE]
    ELSE [m EXCEPT !.state = "check", !.k = @ + 1]

\* The except clause that gives up without looking again.
on_create_error_fail(exists_now) == "fail"

\* The except clause of createDirectory (lines 582-593): list the path
\* again; go on if it exists now, else log the error and return False.
on_create_error(exists_now) == IF exists_now THEN "continue" ELSE "fail"

\* The path is normalised and split (lines 553-565); a path without a
\* component is rejected with an error.
NormalizePath ==
    /\ mkdir.state = "called"
    /\ mkdir' = IF mkdir.parts = <<>>
                THEN [mkdir EXCEPT !.state = "returned", !.result = FALSE,
                                   !.errors = Append(@, "directory_creation")]
                ELSE [mkdir EXCEPT !.state = "check"]
    /\ UNCHANGED share
    /\ UNCHANGED <<collector_vars, tag_vars, ticker_vars, agg_vars, race_vars, main_vars>>

\* nas_conn.listPath(share, current_path) (lines 570-574): it returns when
\* the directory exists and raises when it does not.
ListPath ==
    /\ mkdir.state = "check"
    /\ LET path == current_path(mkdir.parts, mkdir.k)
       IN  mkdir' = IF path \in share
                    THEN next_part([mkdir EXCEPT !.found = @ \cup {path}])
                    ELSE [mkdir EXCEPT !.state = "create"]
    /\ UNCHANGED share
    /\ UNCHANGED <<collector_vars, tag_vars, ticker_vars, agg_vars, race_vars, main_vars>>

\* nas_conn.createDirectory(share, current_path) (lines 576-582): it raises
\* when the directory exists by now; otherwise the server creates it or
\* refuses.
CreateDirectory ==
    /\ mkdir.state = "create"
    /\ LET path == current_path(mkdir.parts, mkdir.k)
       IN  IF path \in share
           THEN /\ mkdir' = [mkdir EXCEPT !.state = "recheck", !.raced = @ \cup {path}]
                /\ UNCHANGED share
           ELSE \E accepted \in BOOLEAN :
                   IF accepted
                   THEN /\ share' = share \cup {path}
                        /\ mkdir' = next_part([mkdir EXCEPT !.created = @ \cup {path}])
                   ELSE /\ mkdir' = [mkdir EXCEPT !.state = "recheck"]
                        /\ UNCHANGED share
    /\ UNCHANGED <<collector_vars, tag_vars, ticker_vars, agg_vars, race_vars, main_vars>>

\* The handler of a failed createDirectory (lines 582-593).
RecheckPath ==
    /\ mkdir.state = "recheck"
    /\ LET path == current_path(mkdir.parts, mkdir.k)
       IN  mkdir' = IF on_create_error(path \in share) = "continue"
                    THEN next_part([mkdir EXCEPT !.found = @ \cup {path}])
                    ELSE [mkdir EXCEPT !.state = "returned", !.result = FALSE,
                                       !.errors = Append(@, "directory_creation")]
    /\ UNCHANGED share
    /\ UNCHANGED <<collector_vars, tag_vars, ticker_vars, agg_vars, race_vars, main_vars>>

\* Another client of the share creates a directory of the path whose parent
\* exists, while the function is running.
OtherClientCreates ==
    /\ mkdir.state \in {"check", "create", "recheck"}
    /\ \E j \in 1..Len(mkdir.parts) :
          /\ current_path(mkdir.parts, j) \notin share
          /\ j > 1 => current_path(mkdir.parts, j - 1) \in share
          /\ share' = share \cup {current_path(mkdir.parts, j)}
    /\ UNCHANGED mkdir
    /\ UNCHANGED <<collector_vars, tag_vars, ticker_vars, agg_vars, race_vars, main_vars>>

NextNas == NormalizePath \/ ListPath \/ CreateDirectory \/ RecheckPath \/ OtherClientCreates

SpecNas == NasInit /\ [][NextNas]_vars

(***************************************************************************)
(* Properties                                                              *)
(***************************************************************************)
\* how many stored records carry the id
CountId(news, id) == Cardinality({ i \in 1..Len(news) : news[i].id = id })

\* a step that ran one search of the plan
SearchStep == request_count' # request_count

\* the ids of the records a step appended
Inserted == { all_news'[i].id : i \in (Len(all_news) + 1)..Len(all_news') }

\* C1: the stored collection holds at most one record per story id, and the
\* record kept for an id carries the description of the first search whose
\* response returned that id.
C1_FirstSearchWins ==
    /\ \A i, j \in 1..Len(all_news) : all_news[i].id = all_news[j].id => i = j
    /\ \A i \in 1..Len(all_news) :
          all_news[i].search_method = first_returned[all_news[i].id]

\* C2: a search leaves every record stored before it in place and unmodified,
\* adds no record for an id already seen, and once two searches have both
\* returned an id there is exactly one record for it.
C2_IdempotentDedup ==
    [][ SearchStep =>
          /\ Len(all_news') >= Len(all_news)
          /\ SubSeq(all_news', 1, Len(all_news)) = all_news
          /\ \A x \in unique_stories : CountId(all_news', x) = CountId(all_news, x)
          /\ \A x \in StoryIds :
                (x \in last'.ids /\ first_returned[x] # "") => CountId(all_news', x) = 1
      ]_vars

\* C3: when every API call for a ticker has failed, get_news_for_ticker has
\* made exactly max_retries calls and returned the empty list; it never makes
\* more than max_retries calls and no exception reaches main.
C3_RetriesExhausted ==
    /\ gn.calls <= cfg.max_retries
    /\ gn.state # "raised"
    /\ main_state # "failed"
    /\ (gn.state = "returned" /\ Len(gn.errors) = gn.calls) =>
          (gn.calls = cfg.max_retries /\ gn.result = 0)
    /\ (gn.state = "returned" /\ Len(gn.errors) = gn.calls /\ gn.calls > 0) =>
          (/\ error_log # <<>>
           /\ error_log[Len(error_log)] =
                 [error_type |-> "api_query", ticker |-> inst, attempts |-> gn.calls])

\* three failed calls with max_retries = 3, then the empty list
C3_Witness ==
    /\ cfg.max_retries = 3
    /\ gn.state = "returned"
    /\ gn.calls = 3
    /\ Len(gn.errors) = 3
    /\ gn.result = 0

\* C4: a search of the plan that fails (the API call or the processing of
\* its response raises) returns 0 and logs the failure with its description,
\* a search whose API call fails stores nothing, and collect_news moves on to
\* the next search: the run is never aborted and no strategy is skipped.
C4_FailureNeverAborts ==
    [][ (pc \in 1..Len(collection_plan) /\ pc' # pc) =>
          /\ pc' = pc + 1
          /\ request_count' = pc
          /\ last'.description = collection_plan[pc].description
          /\ last'.failed =>
                /\ last'.ret = 0
                /\ last'.log[1].level \in {"WARNING", "ERROR"}
                /\ SubSeq(last'.log[1].msg, 1, Len(last'.description)) = last'.description
                /\ last'.log[2] = headlines_line(collection_plan[pc].label, 0)
          /\ last'.kind = "error" => (last'.failed /\ all_news' = all_news)
      ]_vars

\* the Financial sector search was rejected and the run stands at strategy 3
C4_Witness ==
    /\ pc = Len(collection_plan)
    /\ last.kind = "error"
    /\ last.description = "Financial sector"
    /\ last.log[1] = [level |-> "WARNING",
                      msg |-> "Financial sector: Bad Request (400) - Invalid filter value"]
    /\ Len(all_news) = 2

\* the reference tagger: symbols union primarySymbols of a story
C5_Symbols(story) ==
    SeqToSet(OrEmpty(story.symbols)) \cup SeqToSet(OrEmpty(story.primarySymbols))

\* the reference tagger: exact symbol membership, else the name in the text
C5_Expected(story, ticker, aliases, name) ==
    \/ ({ticker} \cup aliases) \cap C5_Symbols(story) # {}
    \/ Contains(Lower(FStr(story.headlines) \o " " \o FStr(story.storyBody)), Lower(name))

\* the alias of a bank of the script that registers none: its base symbol
C5_BaseSymbol(ticker) ==
    CASE ticker = "RY-CA" -> "RY" [] ticker = "TD-CA" -> "TD" [] ticker = "BMO-CA" -> "BMO"
      [] ticker = "BNS-CA" -> "BNS" [] ticker = "CM-CA" -> "CM" [] ticker = "NA-CA" -> "NA"
      [] ticker = "LB-CA" -> "LB"

C5_NoRepeats(list) == \A i, j \in 1..Len(list) : list[i] = list[j] => i = j

C6_NoIdWarned ==
    (last.kind = "data" /\ last.no_id > 0) =>
       /\ pc # PcAborted
       /\ last.ids = {} => last.ret = 0
       /\ \A i \in 1..Len(all_news) : Truthy(all_news[i].id)
       /\ Cardinality({ i \in 1..Len(last.log) : last.log[i].level = "WARNING" }) = last.no_id

\* C7: after a search has returned, either every identified, previously unseen
\* story of its response has been inserted or none has.
C7_AddAtomic ==
    [][ SearchStep => (Inserted = last'.ids \ unique_stories \/ Inserted = {}) ]_vars

\* C8: neither the number of stored records nor the number of seen ids ever
\* decreases, whatever a search call does.
C8_CountNeverDecreases ==
    [][ /\ Len(all_news') >= Len(all_news)
        /\ Cardinality(unique_stories') >= Cardinality(unique_stories) ]_vars

\* a search failed while two records were stored, and both are still there
C8_Witness ==
    /\ last.kind = "error"
    /\ Len(all_news) = 2
    /\ Cardinality(unique_stories) = 2

\* C9: a request rejected with 400 Bad Request is not retried: exactly one
\* API call is made for that ticker.
C9_BadRequestNotRetried ==
    (\E i \in 1..Len(gn.errors) : gn.errors[i] = BadRequestMsg) => gn.calls = 1

\* C10: an authentication failure raised by an API call is propagated at once
\* and aborts the run: it is not retried and no later ticker is queried.
C10_FatalAborts ==
    (\E i \in 1..Len(gn.errors) : gn.errors[i] = UnauthorizedMsg) =>
       main_state = "failed"

\* C11: the wait after the failed attempt with index k that is not the last
\* is min(retry_delay * 2^k, max_backoff_delay) with exponential backoff and
\* retry_delay without it; in exponential mode no wait exceeds
\* max_backoff_delay; every retry uses up one attempt of the budget and no
\* wait follows the last failed attempt.
C11_BackoffSchedule ==
    /\ \A i \in 1..Len(gn.waits) :
          LET k == i - 1
          IN  /\ gn.waits[i] = IF cfg.use_exponential_backoff
                               THEN Min(cfg.retry_delay * (2 ^ k), cfg.max_backoff_delay)
                               ELSE cfg.retry_delay
              /\ cfg.use_exponential_backoff => gn.waits[i] <= cfg.max_backoff_delay
    /\ Len(gn.waits) = gn.attempt
    /\ gn.state = "attempting" => gn.calls = gn.attempt
    /\ gn.calls <= cfg.max_retries
    /\ (gn.state = "returned" /\ Len(gn.errors) = gn.calls /\ gn.calls > 0) =>
          Len(gn.waits) = gn.calls - 1

\* three failures with exponential backoff: the second wait is capped
C11_Witness ==
    /\ cfg.use_exponential_backoff
    /\ cfg.retry_delay = 1
    /\ cfg.max_backoff_delay = 1
    /\ gn.state = "returned"
    /\ Len(gn.errors) = 3
    /\ gn.waits = <<1, 1>>

\* C12: between any two consecutive calls to the service the caller has
\* waited at least the configured request delay.
C12_MinimumDelay ==
    wire.paired => wire.gap >= cfg.request_delay

C15_ReturnsNewCount ==
    [][ SearchStep =>
          /\ last'.ret = Len(all_news') - Len(all_news)
          /\ execute_search_ret(last') = Len(all_news') - Len(all_news)
      ]_vars

\* where a row of df stood in self.all_news
RetrievalIndex(row) == CHOOSE i \in 1..Len(all_news) : all_news[i].id = row.id

\* the file of that name among the files written, if any
Written(name) == { i \in 1..Len(files) : files[i].name = name }

\* how many stored records are tagged with the bank
Mentions(ticker) ==
    Cardinality({ i \in 1..Len(all_news) :
                     ticker \in SeqToSet(all_news[i].canadian_banks_mentioned) })

\* C13: the processed result lists every stored record once, by storyTime in
\* descending order, records whose storyTime is missing or unparseable last,
\* and records with equal storyTime in the order in which they were retrieved.
C13_SortedStable ==
    pc = PcDone =>
       /\ Len(df) = Len(all_news)
       /\ \A i \in 1..Len(all_news) : \E j \in 1..Len(df) : df[j].id = all_news[i].id
       /\ \A i, j \in 1..Len(df) :
             i < j =>
                /\ df[i].storyTime = NaT => df[j].storyTime = NaT
                /\ df[j].storyTime # NaT => df[i].storyTime >= df[j].storyTime
                /\ df[i].storyTime = df[j].storyTime =>
                      RetrievalIndex(df[i]) < RetrievalIndex(df[j])

\* C14: for every tracked bank the logged bank frequency and the 'Total
\* News' cell of the Summary sheet equal the number of stored records whose
\* canadian_banks_mentioned holds the bank.
C14_MentionCounts ==
    (pc = PcDone /\ df # <<>>) =>
       /\ \A l \in 1..Len(agg_log.bank_lines) :
             /\ agg_log.bank_lines[l].count = Mentions(agg_log.bank_lines[l].ticker)
             /\ \A m \in 1..Len(agg_log.bank_lines) :
                   agg_log.bank_lines[m].ticker = agg_log.bank_lines[l].ticker => m = l
       /\ \A b \in 1..Len(canadian_banks) :
             /\ Mentions(canadian_banks[b].ticker) > 0 =>
                   \E l \in 1..Len(agg_log.bank_lines) :
                      agg_log.bank_lines[l].ticker = canadian_banks[b].ticker
             /\ \A f \in Written("news_summary.xlsx") :
                   /\ files[f].sheet[b].ticker = canadian_banks[b].ticker
                   /\ files[f].sheet[b].total_news = Mentions(canadian_banks[b].ticker)

\* the Summary sheet was written for three stories, two of them on one bank
C14_Witness ==
    /\ Written("news_summary.xlsx") # {}
    /\ Len(all_news) = 3
    /\ Mentions("RY-CA") = 2
    /\ Mentions("CM-CA") = 1
    /\ agg_log.bank_lines[1] = [ticker |-> "RY-CA", count |-> 2]

\* C17: for stories with identical timestamps the aggregated output (the same
\* unique set, the same sequence of records) does not depend on the order in
\* which the searches delivered the stories.
C17_OrderInvariant ==
    (/\ prev_run.ran
     /\ pc = PcDone
     /\ \A i, j \in 1..Len(df) : df[i].storyTime = df[j].storyTime) =>
       /\ unique_stories = prev_run.unique
       /\ [i \in 1..Len(df) |-> df[i].id] = prev_run.ids

\* C18: for every strategy label the reported discovery count is the number
\* of stored records whose search_method is that label, each label that found
\* a record is reported once, and the counts add up to the number of records.
C18_StrategyCounts ==
    \A f \in Written("news_summary.txt") :
       LET lines == files[f].sheet
           Found(label) == Cardinality({ i \in 1..Len(all_news) :
                                            all_news[i].search_method = label })
           RECURSIVE Sum(_)
           Sum(k) == IF k = 0 THEN 0 ELSE lines[k].count + Sum(k - 1)
       IN  /\ \A l \in 1..Len(lines) :
                /\ lines[l].count = Found(lines[l].method)
                /\ \A m \in 1..Len(lines) : lines[m].method = lines[l].method => m = l
           /\ \A p \in 1..Len(collection_plan) :
                Found(collection_plan[p].description) > 0 =>
                   \E l \in 1..Len(lines) : lines[l].method = collection_plan[p].description
           /\ Sum(Len(lines)) = Len(all_news)

\* the summary file lists two labels, one of which found two stories
C18_Witness ==
    \E f \in Written("news_summary.txt") :
       /\ Len(files[f].sheet) = 2
       /\ files[f].sheet[2] = [method |-> "Financial sector", count |-> 2]
       /\ Len(all_news) = 3

\* C19: the summary table has one row per tracked bank with its total and
\* primary mention counts, primary at most total, followed by one total row
\* whose counts are the sums of the rows above it.
C19_SummaryTable ==
    \A f \in Written("news_summary.xlsx") :
       LET sheet == files[f].sheet
           n == Len(canadian_banks)
           RECURSIVE SumTotal(_), SumPrimary(_)
           SumTotal(k) == IF k = 0 THEN 0 ELSE sheet[k].total_news + SumTotal(k - 1)
           SumPrimary(k) == IF k = 0 THEN 0 ELSE sheet[k].as_primary + SumPrimary(k - 1)
       IN  /\ Len(sheet) = n + 1
           /\ \A b \in 1..n :
                /\ sheet[b].ticker = canadian_banks[b].ticker
                /\ sheet[b].as_primary <= sheet[b].total_news
           /\ sheet[n + 1].total_news = SumTotal(n)
           /\ sheet[n + 1].as_primary = SumPrimary(n)

\* C20: when the run is aborted by an error, no story data file and no
\* summary report has been written.
C20_NoExportOnAbort ==
    run_state = "aborted" => files = <<>>

\* C21: a search whose response holds only ids already stored leaves a trace
\* of the occurrence in the collector (a provenance counter for the story
\* under the new label), while the stored records are neither duplicated nor
\* replaced.
C21_ProvenanceCounted ==
    [][ (/\ SearchStep
         /\ ~last'.failed
         /\ last'.ids # {}
         /\ \A x \in last'.ids : x \in unique_stories /\ CountId(all_news, x) = 1) =>
          /\ \A x \in last'.ids : CountId(all_news', x) = 1
          /\ SubSeq(all_news', 1, Len(all_news)) = all_news
          /\ <<all_news', unique_stories'>> # <<all_news, unique_stories>>
      ]_vars

\* the ids of the stored records
StoredIds == { all_news[i].id : i \in 1..Len(all_news) }

C23_SeenMatchesStored ==
    pc # PcAborted =>
       /\ \A x \in unique_stories : CountId(all_news, x) = 1
       /\ StoredIds \subseteq unique_stories
       /\ Len(all_news) = Cardinality(unique_stories)

\* C24: on every way out of main an established NAS connection has been
\* closed and a temporary certificate file that was created has been
\* removed; a failure to save the logs changes nothing of this.
C24_CleanupAlways ==
    mn.pos = "exited" =>
       /\ world.conn # "open"
       /\ world.cert # "file"

\* the setup steps a script has before its API client, in order
C25_RequiredSetup(script) ==
    IF script = "street" THEN <<"env", "nas", "config", "ssl">> ELSE <<"env", "nas", "ssl">>

IsPrefix(p, s) == Len(p) <= Len(s) /\ SubSeq(s, 1, Len(p)) = p

RECURSIVE SumNewsCount(_)
SumNewsCount(entries) ==
    IF entries = <<>> THEN 0 ELSE Head(entries).news_count + SumNewsCount(Tail(entries))

\* C27: a pass of the loop whose save_news_to_file fails records the error,
\* and unless building the summary entry itself raises it adds the ticker's
\* entry with its item count, adds the count to total_news_count and goes on
\* to the next institution; the running total is always the sum of the
\* entries, and at completion there is exactly one entry per institution.
C27_SaveFailureGoesOn ==
    /\ [](/\ mn.total_news_count = SumNewsCount(mn.all_news_summary)
          /\ \A k \in 1..Len(mn.all_news_summary) : mn.all_news_summary[k].ticker = k
          /\ mn.status = "completed" => Len(mn.all_news_summary) = NumInstitutions)
    /\ [][ (mn.pos = "loop" /\ mn.i \in mn'.save_failed) =>
             /\ world'.errors = Append(world.errors, "save_news")
             /\ mn'.exc \in {"", "TypeError"}
             /\ mn'.exc = "" =>
                   /\ mn'.pos = IF mn.i < NumInstitutions THEN "loop" ELSE "summary"
                   /\ mn'.i = mn.i + 1
                   /\ Len(mn'.all_news_summary) = mn.i
                   /\ mn'.all_news_summary[mn.i].news_count > 0
                   /\ mn'.total_news_count =
                         mn.total_news_count + mn'.all_news_summary[mn.i].news_count
          ]_vars

\* the first institution's save failed and the run completed all the same
C27_Witness ==
    /\ mn.status = "completed"
    /\ 1 \in mn.save_failed
    /\ Len(mn.all_news_summary) = NumInstitutions
    /\ mn.all_news_summary[1].news_count > 0
    /\ mn.total_news_count >= mn.all_news_summary[1].news_count

\* how many components of the path the function has dealt with
C28_Handled ==
    IF mkdir.state = "returned" /\ mkdir.result THEN Len(mkdir.parts) ELSE mkdir.k - 1

\* C28: nas_create_directory_recursive deals with the components from root
\* to leaf, each found or created before the next; when it returns True every
\* prefix of the path was found or created and exists; when it returns False
\* an error is logged, the component in hand neither exists nor was created,
\* and nothing deeper was created; a component that another client created
\* between the existence check and the create call counts as found.
C28_RootToLeaf ==
    LET prefix(j) == current_path(mkdir.parts, j)
    IN  mkdir.state # "idle" =>
           /\ mkdir.found \cup mkdir.created = { prefix(j) : j \in 1..C28_Handled }
           /\ mkdir.found \cap mkdir.created = {}
           /\ mkdir.created \subseteq share
           /\ (mkdir.state = "returned" /\ mkdir.result) =>
                 /\ mkdir.parts # <<>>
                 /\ \A j \in 1..Len(mkdir.parts) : prefix(j) \in share
           /\ (mkdir.state = "returned" /\ ~mkdir.result) =>
                 /\ Len(mkdir.errors) = 1
                 /\ mkdir.parts # <<>> => prefix(mkdir.k) \notin share
           /\ mkdir.state # "returned" => mkdir.errors = <<>>
           /\ \A p \in mkdir.raced :
                 \/ p \in mkdir.found
                 \/ mkdir.state = "recheck" /\ p = prefix(mkdir.k)

\* a three-level path of which the function created one level itself and
\* lost the race for another
C28_Witness ==
    /\ mkdir.state = "returned"
    /\ mkdir.result
    /\ Len(mkdir.parts) = 3
    /\ mkdir.raced # {}
    /\ mkdir.created # {}

====
